---- MODULE Spec2Model ----
(***************************************************************************)
(* Model of load_dynamodb_lms.py: the CSV -> DynamoDB loader.              *)
(*                                                                         *)
(* A Python str is a sequence of one-character strings, None is the        *)
(* one-element sequence NoneVal, a csv row (dict) is a record whose        *)
(* fields are its columns.  An exception is a record [type, ...].          *)
(* The batch writer and the table are outside the program: a put_item is   *)
(* a future that completes at any later await, with success or with an     *)
(* exception.  Debug-level log records are not modelled.                   *)
(***************************************************************************)
EXTENDS Integers, Sequences, FiniteSets, TLC

\* ------------------------------------------------------------------ bounds
\* number of data rows the reader may deliver in one run
MaxRows == 4
\* number of times the program is run against the same store (SpecReload)
MaxRuns == 2
\* length of the source file of SpecReload
MaxFileLen == 2

\* The literal 5000 of "if item_count == 5000: break", scaled down so that
\* a bounded run reaches it; every property below is stated relative to it.
Ceiling == 2

\* ------------------------------------------------------------ Python values
NoneVal == <<"<None>">>

Digits == {"0", "1", "2", "3", "4", "5", "6", "7", "8", "9"}

DigitVal(c) ==
  CASE c = "0" -> 0 [] c = "1" -> 1 [] c = "2" -> 2 [] c = "3" -> 3
    [] c = "4" -> 4 [] c = "5" -> 5 [] c = "6" -> 6 [] c = "7" -> 7
    [] c = "8" -> 8 [] c = "9" -> 9

DigitChar(n) ==
  CASE n = 0 -> "0" [] n = 1 -> "1" [] n = 2 -> "2" [] n = 3 -> "3"
    [] n = 4 -> "4" [] n = 5 -> "5" [] n = 6 -> "6" [] n = 7 -> "7"
    [] n = 8 -> "8" [] n = 9 -> "9"

AllDigits(s) == \A i \in 1..Len(s) : s[i] \in Digits

RECURSIVE DecVal(_)
DecVal(s) ==
  IF s = <<>> THEN 0
  ELSE 10 * DecVal(SubSeq(s, 1, Len(s) - 1)) + DigitVal(s[Len(s)])

Ok(v) == [ok |-> TRUE, val |-> v]
Raise(t) == [ok |-> FALSE, exc |-> [type |-> t]]

\* re.fullmatch(POS_INT_REGX, s): the whole string is one or more digits
PosIntMatch(s) == Len(s) >= 1 /\ AllDigits(s)

\* int(s): optional sign, then one or more digits; TypeError on None
PyInt(s) ==
  IF s = NoneVal THEN Raise("TypeError")
  ELSE IF s # <<>> /\ s[1] \in {"-", "+"} THEN
    LET d == Tail(s) IN
      IF PosIntMatch(d)
        THEN Ok(IF s[1] = "-" THEN 0 - DecVal(d) ELSE DecVal(d))
        ELSE Raise("ValueError")
  ELSE IF PosIntMatch(s) THEN Ok(DecVal(s)) ELSE Raise("ValueError")

\* ------------------------------------------------------------ convert_date
\* the position of the first "/" of s, 0 when there is none
RECURSIVE FindSlash(_, _)
FindSlash(s, i) ==
  IF i > Len(s) THEN 0
  ELSE IF s[i] = "/" THEN i ELSE FindSlash(s, i + 1)

IsLeap(y) == (y % 4 = 0 /\ y % 100 # 0) \/ y % 400 = 0

DaysInMonth(m, y) ==
  IF m = 2 THEN (IF IsLeap(y) THEN 29 ELSE 28)
  ELSE IF m \in {4, 6, 9, 11} THEN 30 ELSE 31

\* %y of strptime: 69..99 -> 19xx, 00..68 -> 20xx
PivotYear(yy) == IF yy >= 69 THEN 1900 + yy ELSE 2000 + yy

TwoDigits(n) == <<DigitChar(n \div 10), DigitChar(n % 10)>>

FourDigits(n) == TwoDigits(n \div 100) \o TwoDigits(n % 100)

\* datetime.isoformat() of midnight of that day
IsoFormat(y, m, d) ==
  FourDigits(y) \o <<"-">> \o TwoDigits(m) \o <<"-">> \o TwoDigits(d)
    \o <<"T", "0", "0", ":", "0", "0", ":", "0", "0">>

\* dt.datetime.strptime(date, '%m/%d/%y').isoformat()
StrPTime(s) ==
  LET p1 == FindSlash(s, 1)
      rest == IF p1 = 0 THEN <<>> ELSE SubSeq(s, p1 + 1, Len(s))
      p2 == FindSlash(rest, 1)
      mm == IF p1 = 0 THEN <<>> ELSE SubSeq(s, 1, p1 - 1)
      dd == IF p2 = 0 THEN <<>> ELSE SubSeq(rest, 1, p2 - 1)
      yy == IF p2 = 0 THEN <<>> ELSE SubSeq(rest, p2 + 1, Len(rest))
      shaped == /\ p1 # 0 /\ p2 # 0
                /\ Len(mm) \in {1, 2} /\ AllDigits(mm)
                /\ Len(dd) \in {1, 2} /\ AllDigits(dd)
                /\ Len(yy) = 2 /\ AllDigits(yy)
  IN IF ~shaped THEN Raise("ValueError")
     ELSE LET m == DecVal(mm)
              d == DecVal(dd)
              y == PivotYear(DecVal(yy))
          IN IF m \in 1..12 /\ d >= 1 /\ d <= DaysInMonth(m, y)
               THEN Ok(IsoFormat(y, m, d))
               ELSE Raise("ValueError")

convert_date(date) ==
  IF date = NoneVal \/ date = <<>> THEN Ok(<<>>) ELSE StrPTime(date)

\* -------------------------------------------------------- convert_nullable
NullStr == <<"n", "u", "l", "l">>

\* (variant: only the absent value is replaced, the empty string is kept)
convert_nullable_NoneOnly(value) ==
  IF value # NoneVal THEN value ELSE NullStr

convert_nullable(value) ==
  IF value # NoneVal /\ value # <<>> THEN value ELSE NullStr

\* --------------------------------------------------------- convert_orgcode
OrgPrefix == <<"0", "1", "H", "D">>

StartsWith(s, p) == Len(s) >= Len(p) /\ SubSeq(s, 1, Len(p)) = p

\* str.replace(old, ''): every non-overlapping occurrence, left to right
RECURSIVE StrRemoveAll(_, _)
StrRemoveAll(s, old) ==
  IF s = <<>> THEN <<>>
  ELSE IF StartsWith(s, old) THEN StrRemoveAll(SubSeq(s, Len(old) + 1, Len(s)), old)
  ELSE <<Head(s)>> \o StrRemoveAll(Tail(s), old)

convert_orgcode(code) ==
  IF code = NoneVal THEN Raise("AttributeError")
  ELSE Ok(StrRemoveAll(code, OrgPrefix))

\* ------------------------------------------------------- ERROR_HELP_STRINGS
ERROR_HELP_STRINGS ==
  [ConditionalCheckFailedException |->
     "Condition check specified in the operation failed, review and update the condition check before retrying",
   TransactionConflictException |->
     "Operation was rejected because there is an ongoing transaction for the given, generally safe to retry with exponential back-off",
   ItemCollectionSizeLimitExceededException |->
     "A given collection is too large, you're using Local Secondary Index and exceeded size limit of items per partition key. Consider using Global Secondary Index instead",
   AccessDeniedException |->
     "Configure identity based access before retrying",
   InternalServerError |->
     "Internal Server Error, generally safe to retry with exponential back-off",
   ProvisionedThroughputExceededException |->
     "Request rate is too high. If you're using a custom retry strategy make sure to retry with exponential back-off. Otherwise consider reducing frequency of requests or increasing provisioned capacity for your table or secondary index",
   ResourceNotFoundException |->
     "One of the tables was not found, verify table exists before retrying",
   ServiceUnavailable |->
     "Had trouble reaching DynamoDB. generally safe to retry with exponential back-off",
   ThrottlingException |->
     "Request denied due to throttling, generally safe to retry with exponential back-off",
   UnrecognizedClientException |->
     "The request signature is incorrect most likely due to an invalid AWS access key ID or secret key, fix before retrying",
   ValidationException |->
     "The input fails to satisfy the constraints specified by DynamoDB, fix input before retrying",
   RequestLimitExceeded |->
     "Throughput exceeds the current throughput limit for your account, increase account level throughput before retrying"]

KnownCodes == DOMAIN ERROR_HELP_STRINGS

\* the two classes of the error taxonomy
RetrySafeCodes ==
  {"InternalServerError", "ThrottlingException", "ServiceUnavailable",
   "RequestLimitExceeded", "TransactionConflictException"}

FixBeforeRetryCodes ==
  {"ValidationException", "UnrecognizedClientException",
   "ResourceNotFoundException", "AccessDeniedException",
   "ItemCollectionSizeLimitExceededException"}

\* A botocore ClientError whose response carries this error code
ClientError(code) == [type |-> "ClientError", code |-> code]

Exc(t) == [type |-> t]

\* ---------------------------------------------------- log_boto_client_error
\* (variant: the lookup falls back to a default text, as dict.get would)
log_boto_client_error_Default(error) ==
  [ok |-> TRUE,
   log |-> <<[fn |-> "log_boto_client_error", code |-> error.code,
              help |-> IF error.code \in DOMAIN ERROR_HELP_STRINGS
                         THEN ERROR_HELP_STRINGS[error.code]
                         ELSE "Unknown error"]>>]

\* ERROR_HELP_STRINGS[error_code] is a dict lookup: KeyError on a code that
\* is not a key; otherwise one logger.exception record is emitted.
log_boto_client_error(error) ==
  IF error.code \in DOMAIN ERROR_HELP_STRINGS
    THEN [ok |-> TRUE,
          log |-> <<[fn |-> "log_boto_client_error", code |-> error.code,
                     help |-> ERROR_HELP_STRINGS[error.code]]>>]
    ELSE [ok |-> FALSE, exc |-> Exc("KeyError"), log |-> <<>>]

\* ---------------------------------------------------------------- build_item
Required == <<"R", "e", "q", "u", "i", "r", "e", "d">>

\* The dict literal of build_item, in evaluation order: item field, source
\* column, conversion applied to the column's value.
ItemFields ==
  << <<"lms_user_id", "Username", "int">>,
     <<"activity_id", "ActivityIDSource", "int">>,
     <<"calnet_uid", "SourceIDEmpPk", "pass">>,
     <<"empl_id", "LocalEmployeeID", "nullable">>,
     <<"full_name", "EmpFullName1", "pass">>,
     <<"given_name", "FirstName", "pass">>,
     <<"family_name", "LastName", "pass">>,
     <<"empl_org_code", "UserPrimaryOrganizationCode", "orgcode">>,
     <<"manager_empl_id", "ManagerLocalEmployeeID", "nullable">>,
     <<"activity_code", "ActivityCode", "pass">>,
     <<"activity_name", "ActivityName", "pass">>,
     <<"is_required", "AssignmentStatus", "required">>,
     <<"assignment_status", "UCRequirementStatus", "pass">>,
     <<"assigned_date", "PlanDate", "date">>,
     <<"due_date", "DueDate", "date">>,
     <<"expiration_date", "ExpirationDate", "date">>,
     <<"last_attempt_date", "AttemptEndDate", "date">>,
     <<"last_completion_date", "LastCompletionDateRealtime", "date">> >>

Columns == {ItemFields[i][2] : i \in 1..Len(ItemFields)}

\* One entry of the dict literal: given[column] (KeyError when the row has
\* no such column), then the conversion.
FieldValue(given, column, conv) ==
  IF column \notin DOMAIN given THEN Raise("KeyError")
  ELSE LET v == given[column] IN
    CASE conv = "int"      -> PyInt(v)
      [] conv = "pass"     -> Ok(v)
      [] conv = "nullable" -> Ok(convert_nullable(v))
      [] conv = "orgcode"  -> convert_orgcode(v)
      [] conv = "required" -> Ok(v = Required)
      [] conv = "date"     -> convert_date(v)

\* index of the first entry of the dict literal whose evaluation raises
RECURSIVE FirstFailure(_, _)
FirstFailure(given, i) ==
  IF i > Len(ItemFields) THEN 0
  ELSE IF ~FieldValue(given, ItemFields[i][2], ItemFields[i][3]).ok THEN i
  ELSE FirstFailure(given, i + 1)

NoItem == [tag |-> "None"]

\* (variant: last_updated_event_id is taken from the clock instead of 0)
build_item_ClockEventId(given, now) ==
  IF "Username" \notin DOMAIN given THEN Raise("KeyError")
  ELSE IF given["Username"] = NoneVal THEN Raise("TypeError")
  ELSE IF ~PosIntMatch(given["Username"]) THEN Ok(NoItem)
  ELSE LET bad == FirstFailure(given, 1) IN
    IF bad # 0
      THEN [ok |-> FALSE,
            exc |-> FieldValue(given, ItemFields[bad][2], ItemFields[bad][3]).exc]
      ELSE Ok([tag |-> "item",
               f |-> [i \in 1..Len(ItemFields) |->
                        FieldValue(given, ItemFields[i][2], ItemFields[i][3]).val],
               last_updated_datetime |-> now,
               last_updated_event_id |-> now])

\* build_item(given) at wall-clock time now: an item, None (the row is not a
\* person) or the exception it raises.
build_item(given, now) ==
  IF "Username" \notin DOMAIN given THEN Raise("KeyError")
  ELSE IF given["Username"] = NoneVal THEN Raise("TypeError")
  ELSE IF ~PosIntMatch(given["Username"]) THEN Ok(NoItem)
  ELSE LET bad == FirstFailure(given, 1) IN
    IF bad # 0
      THEN [ok |-> FALSE,
            exc |-> FieldValue(given, ItemFields[bad][2], ItemFields[bad][3]).exc]
      ELSE Ok([tag |-> "item",
               f |-> [i \in 1..Len(ItemFields) |->
                        FieldValue(given, ItemFields[i][2], ItemFields[i][3]).val],
               last_updated_datetime |-> now,
               last_updated_event_id |-> 0])

\* the value of one field of a built item
Field(item, name) ==
  item.f[CHOOSE i \in 1..Len(ItemFields) : ItemFields[i][1] = name]

\* ------------------------------------------------------------ source rows
\* a well-formed row of the extract: person 7, activity 1
RowValid ==
  [Username |-> <<"7">>,
   ActivityIDSource |-> <<"1">>,
   SourceIDEmpPk |-> <<"u">>,
   LocalEmployeeID |-> <<"e">>,
   EmpFullName1 |-> <<"A", " ", "B">>,
   FirstName |-> <<"A">>,
   LastName |-> <<"B">>,
   UserPrimaryOrganizationCode |-> <<"0", "1", "H", "D", "X">>,
   ManagerLocalEmployeeID |-> <<>>,
   ActivityCode |-> <<"c">>,
   ActivityName |-> <<"n">>,
   AssignmentStatus |-> Required,
   UCRequirementStatus |-> <<"s">>,
   PlanDate |-> <<"1", "/", "2", "/", "2", "4">>,
   DueDate |-> <<"0", "2", "/", "2", "9", "/", "2", "4">>,
   ExpirationDate |-> <<>>,
   AttemptEndDate |-> <<>>,
   LastCompletionDateRealtime |-> <<"1", "2", "/", "3", "1", "/", "9", "9">>]

\* the same person and activity with another status: same key, other item
RowValid2 == [RowValid EXCEPT !.AssignmentStatus = <<"O">>, !.UCRequirementStatus = <<"t">>]
\* another person
RowOther == [RowValid EXCEPT !.Username = <<"8">>]
\* rows that are not persons
RowSkip == [RowValid EXCEPT !.Username = <<"x", "7">>]
RowSkipEmpty == [RowValid EXCEPT !.Username = <<>>]
\* rows of a person that build_item cannot build
RowBadDate == [RowValid EXCEPT !.PlanDate = <<"2", "/", "3", "0", "/", "2", "4">>]
RowBadActivity == [RowValid EXCEPT !.ActivityIDSource = <<"z">>]
RowAbsentActivity == [RowValid EXCEPT !.ActivityIDSource = NoneVal]
RowNoColumn == [c \in Columns \ {"DueDate"} |-> RowValid[c]]

\* the rows the reader may deliver
Catalogue ==
  {RowValid, RowSkip, RowSkipEmpty, RowBadDate, RowBadActivity,
   RowAbsentActivity, RowNoColumn}

\* the rows of a source file that is loaded more than once
FileCatalogue == {RowValid, RowValid2, RowOther, RowSkip, RowBadDate}

\* ------------------------------------------------------------------ state
VARIABLES
  main_pc,         \* main(): "NotStarted", "Running", "Reported", "Crashed"
  crash,           \* the exception that escaped main(), NoExc if none
  main_item_count, \* main's local item_count: <<>> unbound, <<n>> bound
  pc,              \* load_from_csv: "idle", "read", "gather", "done"
  result,          \* how load_from_csv ended
  this,            \* the loop variable: <<>> unbound, <<row>>
  item,            \* the local item: <<>> unbound, <<NoItem>>, <<item>>
  item_count,      \* load_from_csv's local item_count
  writes,          \* the list of futures of writer.put_item
  rows_read,       \* rows the reader has delivered in this run
  log,             \* the records the last step handed to the logger
  store,           \* the table: the set of its items
  now,             \* dt.datetime.now(), in seconds: one run is short
                   \* against the time between two runs
  file,            \* the source, when it is fixed in advance (SpecReload)
  run,             \* number of the current run of the program
  history          \* what each finished run left: the table, and whether
                   \* every put_item it dispatched succeeded

vars ==
  <<main_pc, crash, main_item_count, pc, result, this, item, item_count,
    writes, rows_read, log, store, now, file, run, history>>

Unbound == <<>>
NoExc == [type |-> "none"]
NoResult == [kind |-> "none"]
Returned(n, via) == [kind |-> "return", value |-> n, via |-> via]
Raised(e) == [kind |-> "raise", exc |-> e]

\* the outcomes of a writer.put_item other than success
WriteExcs ==
  {Exc("ValueError"), Exc("ParamValidationError"), Exc("TypeError"),
   ClientError("ThrottlingException"), ClientError("ValidationException"),
   ClientError("NoSuchCodeException")}

\* the outcomes of the flush that batch_writer does on leaving its block
FlushOutcomes == {"ok", "ThrottlingException", "NoSuchCodeException"}

\* the table's key of an item
Key(it) == <<Field(it, "lms_user_id"), Field(it, "activity_id")>>

\* put_item on the table: insert, or overwrite the item of the same key
Upsert(st, it) == {x \in st : Key(x) # Key(it)} \cup {it}

\* the futures of the list that are done with an exception
Failed(w) == {i \in 1..Len(w) : w[i].done /\ w[i].exc # NoExc}

InFlight == Cardinality({i \in 1..Len(writes) : ~writes[i].done})

Min(S) == CHOOSE x \in S : \A y \in S : x <= y

\* --------------------------------------------------- load_from_csv: pieces
\* What the loop body decides: go on with the next row (cont), or leave the
\* function with a result; and the records it logs on the way.
Continue(l) == [cont |-> TRUE, result |-> NoResult, log |-> l]
Leave(r, l) == [cont |-> FALSE, result |-> r, log |-> l]

\* logger.exception('Invalid ... while putting item: %s\n%s', item, e):
\* evaluating the argument item raises UnboundLocalError when no
\* "item = build_item(this)" has completed yet in this call.
LogPutFailure(msg, itm, e) ==
  IF itm = Unbound
    THEN Leave(Raised(Exc("UnboundLocalError")), <<>>)
    ELSE Continue(<<[fn |-> "load_from_csv", msg |-> msg, item |-> itm[1], exc |-> e]>>)

\* (variant: a retry-safe store error is logged and the loop goes on)
HandleException_RetryContinues(e, itm, cnt) ==
  CASE e.type = "ValueError" ->
         LogPutFailure("Invalid value while putting item", itm, e)
    [] e.type = "ParamValidationError" ->
         LogPutFailure("Invalid parameter while putting item", itm, e)
    [] e.type = "ClientError" ->
         LET r == log_boto_client_error(e) IN
           IF r.ok THEN (IF e.code \in RetrySafeCodes
                           THEN Continue(r.log)
                           ELSE Leave(Returned(cnt, "ClientError"), r.log))
                   ELSE Leave(Raised(r.exc), r.log)
    [] OTHER ->
         Leave(Returned(cnt, "Exception"),
               <<[fn |-> "load_from_csv", msg |-> "Unknown error during load_from_csv", exc |-> e]>>)

\* (variant: on a store error the count returned leaves out the write that
\* was dispatched last)
HandleException_ConfirmedCount(e, itm, cnt) ==
  CASE e.type = "ValueError" ->
         LogPutFailure("Invalid value while putting item", itm, e)
    [] e.type = "ParamValidationError" ->
         LogPutFailure("Invalid parameter while putting item", itm, e)
    [] e.type = "ClientError" ->
         LET r == log_boto_client_error(e) IN
           IF r.ok THEN Leave(Returned(cnt - 1, "ClientError"), r.log)
                   ELSE Leave(Raised(r.exc), r.log)
    [] OTHER ->
         Leave(Returned(cnt, "Exception"),
               <<[fn |-> "load_from_csv", msg |-> "Unknown error during load_from_csv", exc |-> e]>>)

\* the except clauses of the loop body, for exception e raised in the try
HandleException(e, itm, cnt) ==
  CASE e.type = "ValueError" ->
         LogPutFailure("Invalid value while putting item", itm, e)
    [] e.type = "ParamValidationError" ->
         LogPutFailure("Invalid parameter while putting item", itm, e)
    [] e.type = "ClientError" ->
         LET r == log_boto_client_error(e) IN
           IF r.ok THEN Leave(Returned(cnt, "ClientError"), r.log)
                   ELSE Leave(Raised(r.exc), r.log)
    [] OTHER ->
         Leave(Returned(cnt, "Exception"),
               <<[fn |-> "load_from_csv", msg |-> "Unknown error during load_from_csv", exc |-> e]>>)

\* (variant: the loop is left only once the count has passed the ceiling)
AfterBody_BreakAfterCeiling(cnt) ==
  IF cnt > Ceiling THEN Leave(Returned(cnt, "ceiling"), <<>>) ELSE Continue(<<>>)

\* the two tests that end the try block (the debug record is not modelled)
AfterBody(cnt) ==
  IF cnt = Ceiling THEN Leave(Returned(cnt, "ceiling"), <<>>) ELSE Continue(<<>>)

\* the flush can fail when something was put and the table has refused
\* nothing so far
MayFlushFail(w) == w # <<>> /\ Failed(w) = {}

\* Leaving "async with table.batch_writer()": the writer flushes what it
\* still buffers; an exception of the flush replaces the block's outcome.
WriterExit(r, flush, w) ==
  IF flush # "ok" /\ MayFlushFail(w) THEN Raised(ClientError(flush)) ELSE r

\* (variant: on "continue" the loop stays where it is, so that after a
\* gather it awaits the same writes again instead of reading the next row)
Decide_StaysAtAwait(out, flush, w) ==
  /\ log' = out.log
  /\ IF out.cont
       THEN /\ flush = "ok"
            /\ pc' = pc
            /\ result' = result
       ELSE /\ (~MayFlushFail(w) => flush = "ok")
            /\ pc' = "done"
            /\ result' = WriterExit(out.result, flush, w)

\* the effect of a decision of the loop body on pc, result and log
Decide(out, flush, w) ==
  /\ log' = out.log
  /\ IF out.cont
       THEN /\ flush = "ok"
            /\ pc' = "read"
            /\ result' = result
       ELSE /\ (~MayFlushFail(w) => flush = "ok")
            /\ pc' = "done"
            /\ result' = WriterExit(out.result, flush, w)

\* One turn of "async for this in reader" with the row the reader delivers,
\* up to the next await: build_item, then dispatch, skip or except clause.
ProcessRow(row, flush) ==
  LET b == build_item(row, now) IN
    /\ this' = <<row>>
    /\ rows_read' = rows_read + 1
    /\ IF b.ok /\ b.val # NoItem
         THEN /\ item' = <<b.val>>
              /\ writes' = Append(writes, [item |-> b.val, done |-> FALSE, exc |-> NoExc])
              /\ item_count' = item_count + 1
              /\ flush = "ok"
              /\ pc' = "gather"
              /\ log' = <<>>
              /\ result' = result
         ELSE IF b.ok
           THEN /\ item' = <<NoItem>>
                /\ UNCHANGED <<writes, item_count>>
                /\ Decide(AfterBody(item_count), flush, writes)
           ELSE /\ UNCHANGED <<item, writes, item_count>>
                /\ Decide(HandleException(b.exc, item, item_count), flush, writes)
    /\ UNCHANGED <<main_pc, crash, main_item_count, store, now, file, run, history>>

\* ----------------------------------------------------------------- actions
\* main() up to the entry of the loop of load_from_csv
MainStart ==
  /\ main_pc = "NotStarted"
  /\ main_pc' = "Running"
  /\ pc' = "read"
  /\ log' = <<[fn |-> "main", msg |-> "Started"]>>
  /\ UNCHANGED <<crash, main_item_count, result, this, item, item_count,
                 writes, rows_read, store, now, file, run, history>>

\* aiofiles.open raises
OpenFails ==
  \E e \in {Exc("FileNotFoundError"), Exc("OSError")} :
    /\ main_pc = "NotStarted"
    /\ main_pc' = "Running"
    /\ pc' = "done"
    /\ result' = Raised(e)
    /\ log' = <<[fn |-> "main", msg |-> "Started"]>>
    /\ UNCHANGED <<crash, main_item_count, this, item, item_count,
                   writes, rows_read, store, now, file, run, history>>

\* the reader delivers a row
ReadRow ==
  \E row \in Catalogue, flush \in FlushOutcomes :
    /\ pc = "read"
    /\ rows_read < MaxRows
    /\ ProcessRow(row, flush)

\* the reader is exhausted
ReadEOF ==
  \E flush \in FlushOutcomes :
    /\ pc = "read"
    /\ (~MayFlushFail(writes) => flush = "ok")
    /\ pc' = "done"
    /\ result' = WriterExit(Returned(item_count, "exhausted"), flush, writes)
    /\ log' = <<>>
    /\ UNCHANGED <<main_pc, crash, main_item_count, this, item, item_count,
                   writes, rows_read, store, now, file, run, history>>

\* the reader raises: "async for" is outside the try of the loop body
ReadError ==
  \E e \in {Exc("csv.Error"), Exc("OSError")}, flush \in FlushOutcomes :
    /\ pc = "read"
    /\ (~MayFlushFail(writes) => flush = "ok")
    /\ pc' = "done"
    /\ result' = WriterExit(Raised(e), flush, writes)
    /\ log' = <<>>
    /\ UNCHANGED <<main_pc, crash, main_item_count, this, item, item_count,
                   writes, rows_read, store, now, file, run, history>>

\* A dispatched put_item completes, with success or with an exception.
\* (Once load_from_csv has ended nothing reads the futures any more, and
\* asyncio.run cancels those still pending when main ends.)
CompleteWrite ==
  \E i \in 1..Len(writes), o \in {NoExc} \cup WriteExcs :
    /\ pc \in {"read", "gather"}
    /\ ~writes[i].done
    /\ writes' = [writes EXCEPT ![i] = [item |-> writes[i].item, done |-> TRUE, exc |-> o]]
    /\ store' = IF o = NoExc THEN Upsert(store, writes[i].item) ELSE store
    /\ UNCHANGED <<main_pc, crash, main_item_count, pc, result, this, item,
                   item_count, rows_read, log, now, file, run, history>>

\* "await asyncio.gather(*writes)" resumes: with the exception of the first
\* failed future of the list, or, when all are done, with their results
GatherReturn ==
  \E flush \in FlushOutcomes :
    /\ pc = "gather"
    /\ IF Failed(writes) # {}
         THEN Decide(HandleException(writes[Min(Failed(writes))].exc, item, item_count), flush, writes)
         ELSE /\ \A i \in 1..Len(writes) : writes[i].done
              /\ Decide(AfterBody(item_count), flush, writes)
    /\ UNCHANGED <<main_pc, crash, main_item_count, this, item, item_count,
                   writes, rows_read, store, now, file, run, history>>

\* the except clauses of main for exception e
MainHandler(e) ==
  CASE e.type = "FileNotFoundError" ->
         [ok |-> TRUE, log |-> <<[fn |-> "main", msg |-> "Unable to find specified file", exc |-> e]>>]
    [] e.type = "csv.Error" ->
         [ok |-> TRUE, log |-> <<[fn |-> "main", msg |-> "Unable to read CSV file", exc |-> e]>>]
    [] e.type = "OSError" ->
         [ok |-> TRUE, log |-> <<[fn |-> "main", msg |-> "Unexpected IO problem", exc |-> e]>>]
    [] e.type = "ClientError" -> log_boto_client_error(e)
    [] OTHER ->
         [ok |-> TRUE, log |-> <<[fn |-> "main", msg |-> "Unknown problem", exc |-> e]>>]

Summary(n) == [fn |-> "main", msg |-> "Loaded items", item_count |-> n]

\* main() after "await load_from_csv()": the assignment or the except
\* clause, stack.aclose(), and the final logger.info, which reads item_count
MainAfterLoad ==
  /\ main_pc = "Running"
  /\ pc = "done"
  /\ IF result.kind = "return"
       THEN /\ main_item_count' = <<result.value>>
            /\ log' = <<Summary(result.value)>>
            /\ main_pc' = "Reported"
            /\ crash' = crash
       ELSE LET h == MainHandler(result.exc) IN
            /\ main_item_count' = main_item_count
            /\ log' = h.log
            /\ main_pc' = "Crashed"
            /\ crash' = IF h.ok THEN Exc("UnboundLocalError") ELSE h.exc
  /\ history' = Append(history,
                       [store |-> store,
                        writes_ok |-> \A i \in 1..Len(writes) :
                                        writes[i].done /\ writes[i].exc = NoExc])
  /\ UNCHANGED <<pc, result, this, item, item_count, writes, rows_read,
                 store, now, file, run>>

InitWith(f) ==
  /\ main_pc = "NotStarted"
  /\ crash = NoExc
  /\ main_item_count = Unbound
  /\ pc = "idle"
  /\ result = NoResult
  /\ this = Unbound
  /\ item = Unbound
  /\ item_count = 0
  /\ writes = <<>>
  /\ rows_read = 0
  /\ log = <<>>
  /\ store = {}
  /\ now = 0
  /\ file = f
  /\ run = 1
  /\ history = <<>>

\* One run over a source whose rows are drawn as they are read (file is
\* not used).
Init == InitWith(<<>>)

Next ==
  \/ MainStart
  \/ OpenFails
  \/ ReadRow
  \/ ReadEOF
  \/ ReadError
  \/ CompleteWrite
  \/ GatherReturn
  \/ MainAfterLoad

Spec == Init /\ [][Next]_vars

\* the steps that a waiting program is bound to take: main starts; a reader
\* that is asked for the next row of a finite source answers, and when it
\* delivers no row (ReadRow) it reports its end or fails; an await whose
\* futures are done resumes; main goes on after load_from_csv
ProgramStep ==
  \/ MainStart
  \/ OpenFails
  \/ ReadEOF
  \/ ReadError
  \/ GatherReturn
  \/ MainAfterLoad

\* asyncio.run drives main until it ends: a coroutine that can go on does
\* go on, and every put_item that was dispatched completes, with success or
\* with an exception.
SpecFair == Spec /\ WF_vars(ProgramStep) /\ WF_vars(CompleteWrite)

\* ------------------------------------------------- the same file, loaded twice
Files ==
  UNION {[1..n -> FileCatalogue] : n \in 0..MaxFileLen}

\* the reader delivers the next row of the file
ReadFileRow ==
  \E flush \in FlushOutcomes :
    /\ pc = "read"
    /\ rows_read < Len(file)
    /\ ProcessRow(file[rows_read + 1], flush)

\* the file is exhausted
FileEOF ==
  \E flush \in FlushOutcomes :
    /\ pc = "read"
    /\ rows_read = Len(file)
    /\ (~MayFlushFail(writes) => flush = "ok")
    /\ pc' = "done"
    /\ result' = WriterExit(Returned(item_count, "exhausted"), flush, writes)
    /\ log' = <<>>
    /\ UNCHANGED <<main_pc, crash, main_item_count, this, item, item_count,
                   writes, rows_read, store, now, file, run, history>>

\* The program is started again, later, on the same file and the same
\* table, after a run in which the table took every put.
Rerun ==
  \E t \in {now, now + 1} :
    /\ main_pc \in {"Reported", "Crashed"}
    /\ run < MaxRuns
    /\ history[Len(history)].writes_ok
    /\ run' = run + 1
    /\ now' = t
    /\ main_pc' = "NotStarted"
    /\ crash' = NoExc
    /\ main_item_count' = Unbound
    /\ pc' = "idle"
    /\ result' = NoResult
    /\ this' = Unbound
    /\ item' = Unbound
    /\ item_count' = 0
    /\ writes' = <<>>
    /\ rows_read' = 0
    /\ log' = <<>>
    /\ UNCHANGED <<store, file, history>>

InitReload == \E f \in Files : InitWith(f)

NextReload ==
  \/ MainStart
  \/ ReadFileRow
  \/ FileEOF
  \/ CompleteWrite
  \/ GatherReturn
  \/ MainAfterLoad
  \/ Rerun

SpecReload == InitReload /\ [][NextReload]_vars

\* ------------------------------------- build_item over the values of a row
\* number of pieces an organisation code is put together from
MaxChunks == 3

\* the pieces: the prefix, another character, and the two halves of the
\* prefix
OrgChunks == {OrgPrefix, <<"X">>, <<"0", "1">>, <<"H", "D">>}

RECURSIVE OrgCodes(_)
OrgCodes(n) ==
  IF n = 0 THEN {<<>>}
  ELSE OrgCodes(n - 1) \cup {c \o k : c \in OrgCodes(n - 1), k \in OrgChunks}

\* the values of the Username column
Usernames ==
  {<<"7">>, <<"0">>, <<"0", "0", "0">>, <<"0", "7">>, <<"-", "7">>, <<"x">>}

\* the values of the two employee-id columns
EmplIds == {<<>>, NoneVal, <<"e">>, NullStr, <<" ">>}

\* the rows: the well-formed row with one column, or the two employee ids,
\* varied; and the row of a file that has no manager column
BuildRows ==
  {[RowValid EXCEPT !.UserPrimaryOrganizationCode = c] :
     c \in OrgCodes(MaxChunks) \cup {NoneVal}}
  \cup {[RowValid EXCEPT !.Username = u] : u \in Usernames}
  \cup {[RowValid EXCEPT !.LocalEmployeeID = a, !.ManagerLocalEmployeeID = b] :
          a \in EmplIds, b \in EmplIds}
  \cup {[c \in Columns \ {"ManagerLocalEmployeeID"} |-> RowValid[c]]}

\* one run over a file of one such row
InitBuild == \E row \in BuildRows : InitWith(<<row>>)

NextBuild ==
  \/ MainStart
  \/ ReadFileRow
  \/ FileEOF
  \/ CompleteWrite
  \/ GatherReturn
  \/ MainAfterLoad

SpecBuild == InitBuild /\ [][NextBuild]_vars

\* ================================================================= claims
\* the row being processed is a person's row that build_item cannot build
BuildFailsOnThis ==
  /\ this # Unbound
  /\ "Username" \in DOMAIN this[1]
  /\ PosIntMatch(this[1]["Username"])
  /\ ~build_item(this[1], now).ok

\* load_from_csv was ended by the row it was processing: by the return of
\* "except Exception", or by an exception raised inside an except clause
EndedByRow ==
  /\ pc = "done"
  /\ \/ result = Raised(Exc("UnboundLocalError"))
     \/ (result.kind = "return" /\ result.via = "Exception")

\* C1: when build_item fails on a row whose Username is all digits, whatever
\* the cause and whatever the row's position, load_from_csv does not end
\* there: it goes on to read the next row.
C1_BuildFailureDoesNotAbort == BuildFailsOnThis => ~EndedByRow

\* the writes that are confirmed: done, without an exception
Confirmed == {i \in 1..Len(writes) : writes[i].done /\ writes[i].exc = NoExc}

\* C2: when a dispatched write fails with a store error of a known code, the
\* count load_from_csv returns is the number of writes confirmed before the
\* failure (k-1 when the k-th write failed).
C2_ReturnsConfirmedCount ==
  (pc = "done" /\ result.kind = "return" /\ result.via = "ClientError")
    => result.value = Cardinality(Confirmed)

\* the run of main has ended
MainEnded == main_pc \in {"Reported", "Crashed"}

\* the run was aborted: load_from_csv did not end by exhausting the source
\* or by reaching the ceiling
RunAborted ==
  /\ pc = "done"
  /\ ~(result.kind = "return" /\ result.via \in {"exhausted", "ceiling"})

\* C3: every run of main that aborts still reaches the final summary and
\* reports a defined item count there.
C3_AbortStillReports ==
  (MainEnded /\ RunAborted)
    => /\ main_pc = "Reported"
       /\ main_item_count # Unbound
       /\ \E i \in 1..Len(log) : log[i] = Summary(main_item_count[1])

\* C4: once a write operation has failed, with whatever exception, no
\* further source row is read and no further write is dispatched.
C4_WriteFailureAborts ==
  [][Failed(writes) # {} => (rows_read' = rows_read /\ Len(writes') = Len(writes))]_vars

\* this step is a turn of the loop on a row that is not a person's: its
\* Username is not one or more decimal digits
SkipStep ==
  /\ rows_read' = rows_read + 1
  /\ ~PosIntMatch(this'[1]["Username"])

\* C5: for a row whose Username does not fully match one-or-more digits,
\* build_item produces no item and raises nothing, and load_from_csv
\* dispatches no write, leaves item_count unchanged, records no failure and
\* continues with the next row.
C5_SkipIsPure ==
  [][SkipStep =>
       /\ build_item(this'[1], now') = Ok(NoItem)
       /\ item' = <<NoItem>>
       /\ writes' = writes
       /\ item_count' = item_count
       /\ log' = <<>>
       /\ pc' = "read"]_vars

\* C6: at every point of a run, also after a write failure that the loop
\* contains and continues past, the number of writes dispatched but not yet
\* completed stays below a fixed ceiling that does not grow with the source
\* (the item ceiling is the only limit on dispatches that the code has).
C6_InFlightBounded == InFlight <= Ceiling

\* C7: whenever load_from_csv finishes, every write it dispatched has been
\* awaited to completion.
C7_AllWritesAwaited == pc = "done" => InFlight = 0

\* the exception of the first failed future of the list: the one that
\* "await asyncio.gather(*writes)" raises
FirstFailedExc ==
  IF Failed(writes) # {} THEN writes[Min(Failed(writes))].exc ELSE NoExc

\* the error code of the store error that the run met, "none" without one
StoreErrorCode ==
  IF FirstFailedExc.type = "ClientError" THEN FirstFailedExc.code
  ELSE IF result.kind = "raise" /\ result.exc.type = "ClientError" THEN result.exc.code
  ELSE "none"

\* what tells a failed classification from every other end of a run: the
\* KeyError of the table lookup escapes main, or main logs it
ClassificationFailed ==
  \/ crash = Exc("KeyError")
  \/ log = <<[fn |-> "main", msg |-> "Unknown problem", exc |-> Exc("KeyError")]>>

OtherClass(c) ==
  IF c \in RetrySafeCodes THEN FixBeforeRetryCodes
  ELSE IF c \in FixBeforeRetryCodes THEN RetrySafeCodes ELSE {}

\* C9: two runs over the same source in which the same write fails, in the
\* one with a retry-safe code and in the other with a fix-before-retry code,
\* behave identically: up to the failure they are the same run; the step
\* that handles the failure reads no row, dispatches no write and ends
\* load_from_csv with the same result whichever of the two codes it is, and
\* main then does the same; only the logged remediation text differs.
C9_ErrorClassHasNoEffect ==
  [][/\ (pc = "gather" /\ pc' # "gather" /\ FirstFailedExc.type = "ClientError")
          => \A c2 \in OtherClass(FirstFailedExc.code) :
               LET o == HandleException(ClientError(c2), item, item_count) IN
                 /\ pc' = (IF o.cont THEN "read" ELSE "done")
                 /\ result' = o.result
                 /\ log' # o.log
                 /\ item_count' = item_count
                 /\ rows_read' = rows_read
                 /\ writes' = writes
     /\ (main_pc = "Running" /\ MainEnded' /\ pc = "done"
           /\ result.kind = "raise" /\ StoreErrorCode # "none")
          => \A c2 \in OtherClass(StoreErrorCode) :
               LET h == MainHandler(ClientError(c2)) IN
                 /\ crash' = (IF h.ok THEN Exc("UnboundLocalError") ELSE h.exc)
                 /\ log' # h.log
                 /\ main_item_count' = main_item_count]_vars

\* a run was ended by a write that failed with a code of the taxonomy
C9_Witness ==
  /\ pc = "done"
  /\ result.kind = "return"
  /\ result.via = "ClientError"
  /\ FirstFailedExc.code \in RetrySafeCodes \cup FixBeforeRetryCodes

\* an item without its ingestion timestamp
Strip(it) == [it EXCEPT !.last_updated_datetime = 0]

\* two tables hold the same keys, one item per key, and the same items
\* apart from last_updated_datetime
SameTable(s1, s2) ==
  /\ {Key(x) : x \in s1} = {Key(x) : x \in s2}
  /\ \A x \in s2, y \in s2 : Key(x) = Key(y) => x = y
  /\ {Strip(x) : x \in s1} = {Strip(x) : x \in s2}

\* C10: loading the same input again into a table that upserts by
\* (lms_user_id, activity_id), every put succeeding, leaves the table as the
\* first load left it: the same keys, one entry per key, and for each key
\* the same item apart from last_updated_datetime.
C10_ReloadIdempotent ==
  \A n \in 2..Len(history) :
    (\A m \in 1..n : history[m].writes_ok)
      => SameTable(history[1].store, history[n].store)

\* the file was loaded twice, every put succeeded, and the second load
\* changed the table's items (their timestamps)
C10_Witness ==
  /\ Len(history) >= 2
  /\ history[1].writes_ok
  /\ history[2].writes_ok
  /\ history[1].store # {}
  /\ history[2].store # history[1].store

\* ---------------------------------------------------------------- items
\* the item that the loop has just built from the row `this` and dispatched
JustDispatched == pc = "gather"

\* a string without one leading occurrence of the prefix, if it has one
StripLeadingOnce(code) ==
  IF StartsWith(code, OrgPrefix) THEN SubSeq(code, Len(OrgPrefix) + 1, Len(code))
  ELSE code

\* C11: for every organisation code, empl_org_code is the code without one
\* leading "01HD" and nothing else: the code minus its first four characters
\* when it starts with "01HD", the code unchanged otherwise; an occurrence
\* that is not leading, and a second occurrence, are kept.
C11_OrgcodeStripsOneLeadingPrefix ==
  JustDispatched
    => Field(item[1], "empl_org_code")
         = StripLeadingOnce(this[1]["UserPrimaryOrganizationCode"])

\* a Username that is one or more zeros
AllZeros(s) == Len(s) >= 1 /\ \A i \in 1..Len(s) : s[i] = "0"

\* C12: every item handed to the writer has an lms_user_id strictly greater
\* than zero; a row whose Username is "0" or "000" is skipped, nothing is
\* written for it.
C12_UserIdStrictlyPositive ==
  /\ \A i \in 1..Len(writes) : Field(writes[i].item, "lms_user_id") > 0
  /\ (this # Unbound /\ AllZeros(this[1]["Username"]))
       => (item = <<NoItem>> /\ writes = <<>>)

\* what an employee-id column becomes
NullableOf(src) == IF src = <<>> \/ src = NoneVal THEN NullStr ELSE src

\* C13: in every item that build_item produces, empl_id and manager_empl_id
\* are never empty and never absent: they are "null" when the source column
\* is empty or absent, and the source value unchanged otherwise.
C13_EmplIdsNeverEmpty ==
  JustDispatched
    => /\ Field(item[1], "empl_id") \notin {<<>>, NoneVal}
       /\ Field(item[1], "manager_empl_id") \notin {<<>>, NoneVal}
       /\ Field(item[1], "empl_id") = NullableOf(this[1]["LocalEmployeeID"])
       /\ Field(item[1], "manager_empl_id")
            = NullableOf(this[1]["ManagerLocalEmployeeID"])
       /\ writes[Len(writes)].item = item[1]

\* an item was built from a row with an absent employee id and an empty
\* manager id, and one from a row that has both
C13_Witness ==
  /\ JustDispatched
  /\ \/ /\ this[1]["LocalEmployeeID"] = NoneVal
        /\ this[1]["ManagerLocalEmployeeID"] = <<>>
        /\ Field(item[1], "empl_id") = NullStr
        /\ Field(item[1], "manager_empl_id") = NullStr
     \/ /\ this[1]["LocalEmployeeID"] = <<"e">>
        /\ this[1]["ManagerLocalEmployeeID"] = <<" ">>
        /\ Field(item[1], "manager_empl_id") = <<" ">>

\* ------------------------------------------------------------ diagnostics
\* the records of the two except clauses that continue with the next row
PutFailureMsgs ==
  {"Invalid value while putting item", "Invalid parameter while putting item"}

\* the logged data is the item of the row being processed
BelongsToThis(data) ==
  /\ this # Unbound
  /\ build_item(this[1], now) = Ok(data)
  /\ data # NoItem

\* C14: what the ValueError / ParamValidationError handler logs belongs to
\* the row being processed when the failure occurred, never to an earlier
\* row, and the handler itself never fails for lack of such data.
C14_HandlerLogsCurrentRow ==
  /\ result # Raised(Exc("UnboundLocalError"))
  /\ \A i \in 1..Len(log) :
       (log[i].fn = "load_from_csv" /\ log[i].msg \in PutFailureMsgs)
         => BelongsToThis(log[i].item)

\* ------------------------------------------------------------- the ceiling
\* the run has met a failure of the store or of the transport: a put_item
\* or the flush has failed, or the file could not be opened or read
StoreOrTransportFailure ==
  \/ Failed(writes) # {}
  \/ /\ result.kind = "raise"
     /\ result.exc.type \in {"FileNotFoundError", "OSError", "csv.Error", "ClientError"}

\* load_from_csv has returned from below its loop
Completed ==
  /\ pc = "done"
  /\ result.kind = "return"
  /\ result.via \in {"exhausted", "ceiling"}

\* C15: in a run that meets no store or transport failure, load_from_csv
\* completes exactly when the source is exhausted or item_count reaches the
\* ceiling, whichever comes first: item_count never exceeds the ceiling;
\* once it equals the ceiling no row is read and no write dispatched, and
\* the loop's next step completes the run; when the reader is exhausted
\* below the ceiling the run completes with the count.
C15_StopsAtCeiling ==
  [][(~StoreOrTransportFailure /\ ~StoreOrTransportFailure') =>
       /\ item_count <= Ceiling
       /\ item_count' <= Ceiling
       /\ item_count = Ceiling
            => /\ rows_read' = rows_read
               /\ Len(writes') = Len(writes)
               /\ (pc = "gather" /\ pc' # "gather")
                    => (pc' = "done" /\ result' = Returned(Ceiling, "ceiling"))
       /\ (pc = "read" /\ pc' = "done" /\ rows_read' = rows_read)
            => (item_count < Ceiling /\ result' = Returned(item_count, "exhausted"))
       /\ Completed'
            => /\ result'.value = item_count'
               /\ (result'.via = "ceiling" <=> item_count' = Ceiling)]_vars

\* a run without such a failure has stopped at the ceiling, with rows it
\* skipped or could not build on the way
C15_Witness ==
  /\ ~StoreOrTransportFailure
  /\ Completed
  /\ result = Returned(Ceiling, "ceiling")
  /\ rows_read > Ceiling

\* ------------------------------------------------------------ termination
\* C16: for every finite source, and every store in which each dispatched
\* write eventually succeeds or fails, the run goes from NotStarted to
\* Running and eventually ends, completed or aborted and never both; the end
\* is terminal: once load_from_csv has ended no row is read and no write is
\* dispatched, and once main has ended nothing happens any more.
C16_RunTerminates ==
  /\ <>MainEnded
  /\ [][/\ ~MainEnded
        /\ main_pc' # main_pc
             => \/ (main_pc = "NotStarted" /\ main_pc' = "Running")
                \/ (main_pc = "Running" /\ MainEnded')
        /\ pc = "done"
             => /\ pc' = "done"
                /\ result' = result
                /\ rows_read' = rows_read
                /\ Len(writes') = Len(writes)
                /\ item_count' = item_count
        /\ MainEnded'
             => /\ pc' = "done"
                /\ result'.kind \in {"return", "raise"}
                /\ Completed' # RunAborted'
                /\ Completed' => main_pc' = "Reported"]_vars

\* a run has ended after reading rows and dispatching writes, one of which
\* the store refused
C16_Witness ==
  /\ MainEnded
  /\ rows_read >= 2
  /\ Failed(writes) # {}
  /\ RunAborted

\* ---------------------------------------------------------------- the count
\* C17: at every point item_count is the number of writes dispatched so far:
\* it is incremented with the dispatch, before the write is awaited; it never
\* decreases; a source row causes at most one dispatch; and the count that
\* load_from_csv returns, and main reports, is the number of dispatched
\* items.
C17_CountIsDispatched ==
  [][/\ item_count = Len(writes)
     /\ item_count' = Len(writes')
     /\ item_count' >= item_count
     /\ rows_read' - rows_read \in {0, 1}
     /\ Len(writes') - Len(writes) <= rows_read' - rows_read
     /\ item_count' > item_count
          => (pc' = "gather" /\ ~writes'[Len(writes')].done)
     /\ result'.kind = "return" => result'.value = Len(writes')
     /\ main_item_count' # Unbound => main_item_count'[1] = Len(writes')]_vars

\* load_from_csv has returned, on a store error, a count that includes
\* writes that were not confirmed
C17_Witness ==
  /\ pc = "done"
  /\ result = Returned(Len(writes), "ClientError")
  /\ result.value > Cardinality(Confirmed)
  /\ main_item_count = <<Len(writes)>>

====
